---- MODULE Spec2Model ----
(***************************************************************************)
(* The executor of the Cypher CREATE clause                                *)
(* (src/backend/executor/cypher_create.c): the custom scan node's          *)
(* begin / exec / end / rescan callbacks and the mutually recursive        *)
(* create_vertex / create_edge walk of a pattern.                          *)
(*                                                                         *)
(* One callback invocation is one step.  In terminal mode one iteration of *)
(* the while(true) loop of exec_cypher_create is one step.  The walk of a  *)
(* row is computed by the operators create_vertex and create_edge, which   *)
(* thread the executor state `st` through the calls in the order the C     *)
(* code makes them; st.trace is the history of what the walk did, in       *)
(* order.  An ereport(ERROR) sets st.err and every later operation of the  *)
(* walk is skipped, as the longjmp out of the callback does.               *)
(***************************************************************************)
EXTENDS Integers, Sequences, FiniteSets, TLC

\* ------------------------------------------------------------------ bounds
MaxRows == 2       \* rows the subtree hands up over one statement
MaxNodes == 5      \* target nodes (vertices and edges) in the whole pattern
MaxPaths == 2      \* paths in the pattern
MaxNullPulls == 2  \* pulls of the subtree that return no row

\* ------------------------------------------------------------- the pattern
VertexKinds == {"new", "ref", "cur"}
Dirs == {"right", "left", "none"}

\* The slot of the variable the subtree binds, and "no name" / "no slot".
X == <<0, 0>>
NULL == <<>>
InvalidAttrNumber == <<>>

\* The paths of n target nodes before their flags are worked out: vertex
\* kinds at the odd places, edge directions at the even ones.
RECURSIVE RawPathsOfLen(_)
RawPathsOfLen(n) ==
    IF n = 1 THEN {<<k>> : k \in VertexKinds}
    ELSE {s \o <<d, k>> : s \in RawPathsOfLen(n - 2), d \in Dirs, k \in VertexKinds}

\* A path that only creates: new vertices joined by right edges.
PlainPath(n) == [i \in 1..n |-> IF i % 2 = 1 THEN "new" ELSE "right"]

\* The sequences of at most m plain paths with at most b target nodes.
RECURSIVE PlainPathsWith(_, _)
PlainPathsWith(b, m) ==
    IF m = 0 \/ b < 1 THEN {<<>>}
    ELSE {<<>>} \cup
         UNION {{<<PlainPath(n)>> \o rest : rest \in PlainPathsWith(b - n, m - 1)}
                : n \in {k \in 1..b : k % 2 = 1}}

\* The patterns of at most MaxPaths paths and MaxNodes target nodes: the
\* first path is any path, the paths after it are plain.
RawPatterns ==
    UNION {{<<q>> \o rest : q \in RawPathsOfLen(n),
                            rest \in PlainPathsWith(MaxNodes - n, MaxPaths - 1)}
           : n \in {k \in 1..MaxNodes : k % 2 = 1}}

\* Positions <<p, i>> of a raw pattern, in pattern order.
Before(a, b) == a[1] < b[1] \/ (a[1] = b[1] /\ a[2] < b[2])

\* The slot a "cur" vertex (a variable created earlier in the statement)
\* reads: the first insert-mode vertex that precedes it in the pattern when
\* that vertex is a variable, otherwise the variable the subtree binds.
CurSlot(raw, named, p, i) ==
    LET earlier == {q \in {<<a, b>> : a \in 1..Len(raw), b \in 1..MaxNodes} :
                       /\ q[2] <= Len(raw[q[1]])
                       /\ raw[q[1]][q[2]] = "new"
                       /\ Before(q, <<p, i>>)}
    IN  IF named /\ earlier # {}
        THEN CHOOSE q \in earlier : \A r \in earlier : q = r \/ Before(q, r)
        ELSE X

\* cypher_target_node: type, flags, dir, variable_name, tuple_position.
TargetNode(raw, in_path, named, p, i) ==
    LET k == raw[p][i]
        pathflag == IF in_path THEN {"IN_PATH"} ELSE {}
        varflag == IF named THEN {"IS_VARIABLE"} ELSE {}
        outflag == IF in_path \/ named THEN {"OUTPUT"} ELSE {}
    IN  IF i % 2 = 0
        THEN [type |-> "edge", dir |-> k,
              flags |-> {"INSERT_ENTITY"} \cup pathflag \cup varflag \cup outflag,
              variable_name |-> IF named THEN <<p, i>> ELSE NULL,
              tuple_position |-> <<p, i>>]
        ELSE IF k = "new"
        THEN [type |-> "vertex", dir |-> "none",
              flags |-> {"INSERT_ENTITY"} \cup pathflag \cup varflag \cup outflag,
              variable_name |-> IF named THEN <<p, i>> ELSE NULL,
              tuple_position |-> <<p, i>>]
        ELSE IF k = "ref"
        THEN [type |-> "vertex", dir |-> "none",
              flags |-> pathflag,
              variable_name |-> X,
              tuple_position |-> X]
        ELSE [type |-> "vertex", dir |-> "none",
              flags |-> {"SKIP_EXISTENCE_CHECK"} \cup pathflag,
              variable_name |-> CurSlot(raw, named, p, i),
              tuple_position |-> CurSlot(raw, named, p, i)]

\* cypher_create_path: path_attr_num, target_nodes.
CreatePath(raw, in_path, named, p) ==
    [path_attr_num |-> IF in_path THEN <<p, 0>> ELSE InvalidAttrNumber,
     target_nodes |-> [i \in 1..Len(raw[p]) |-> TargetNode(raw, in_path, named, p, i)]]

\* A pattern is kept as its paths' kinds and its two naming choices; the
\* target nodes are worked out from them.
Patterns ==
    {[paths |-> raw, in_path |-> in_path, named |-> named] :
        raw \in RawPatterns, in_path \in BOOLEAN, named \in BOOLEAN}


\* --------------------------------------------------------------- the state
VARIABLES
    pattern,        \* css->pattern: the paths of the clause (immutable)
    terminal,       \* CYPHER_CLAUSE_IS_TERMINAL(css->flags)
    phase,          \* "uninit", "open", "exhausted" (exec returned NULL), "closed"
    in_exec,        \* inside the while(true) loop of a terminal exec call
    err,            \* the ereport(ERROR) that aborted the statement, or "none"
    errvar,         \* the variable the error message names, or NULL
    es_output_cid,  \* estate->es_output_cid
    curcid,         \* estate->es_snapshot->curcid
    commandId,      \* the transaction's command counter (CommandCounterIncrement)
    rels,           \* the target nodes whose relation and indices are open
    scantuple,      \* the subtree's scan tuple: slot -> datum
    path_values,    \* css->path_values
    tuple_info,     \* css->tuple_info: the variables with a recorded tuple
    heap,           \* the tuples heap_insert has written, in order
    next_id,        \* the next graphid the id expression yields
    deleted_vars,   \* variables whose recorded tuple is marked deleted
    dead,           \* earlier entities that a clause of the subtree has deleted
    props_ok,       \* the row's property maps pass the relation's constraints
    trace,          \* what the walk of the current row did, in order
    last_pull,      \* the command ids in effect during the last pull
    ret,            \* what the last exec call returned: "none", "NULL", "row"
    n_calls,        \* exec invocations
    n_rows,         \* rows the subtree returned
    n_null,         \* pulls that returned no row
    n_exec,         \* process_pattern executions
    n_emitted,      \* rows returned to the caller
    op              \* the callback that took the last step

vars == <<pattern, terminal, phase, in_exec, err, errvar, es_output_cid, curcid,
          commandId, rels, scantuple, path_values, tuple_info, heap, next_id,
          deleted_vars, dead, props_ok, trace, last_pull, ret, n_calls,
          n_rows, n_null, n_exec, n_emitted, op>>

\* ------------------------------------------------------------------ datums
NullDatum == [type |-> "null", id |-> 0, start_id |-> 0, end_id |-> 0, elems |-> <<>>]

make_vertex(id) ==
    [type |-> "vertex", id |-> id, start_id |-> 0, end_id |-> 0, elems |-> <<>>]

make_edge(id, start_id, end_id) ==
    [type |-> "edge", id |-> id, start_id |-> start_id, end_id |-> end_id,
     elems |-> <<>>]

make_path(list) ==
    [type |-> "path", id |-> 0, start_id |-> 0, end_id |-> 0, elems |-> list]

\* ------------------------------------------------------------ the pattern's
NumPaths == Len(pattern.paths)

PathLen(p) == Len(pattern.paths[p])

Positions == UNION {{<<p, i>> : i \in 1..PathLen(p)} : p \in 1..NumPaths}

Node(pos) ==
    TargetNode(pattern.paths, pattern.in_path, pattern.named, pos[1], pos[2])

path_attr_num(p) ==
    CreatePath(pattern.paths, pattern.in_path, pattern.named, p).path_attr_num

Slots == {X} \cup Positions \cup {<<p, 0>> : p \in 1..NumPaths}

CYPHER_TARGET_NODE_INSERT_ENTITY(flags) == "INSERT_ENTITY" \in flags
CYPHER_TARGET_NODE_OUTPUT(flags) == "OUTPUT" \in flags
CYPHER_TARGET_NODE_IN_PATH(flags) == "IN_PATH" \in flags
CYPHER_TARGET_NODE_IS_VARIABLE(flags) == "IS_VARIABLE" \in flags
SAFE_TO_SKIP_EXISTENCE_CHECK(flags) == "SKIP_EXISTENCE_CHECK" \in flags

\* ------------------------------------------------- the state a walk threads
State ==
    [err |-> err, errvar |-> errvar, es_output_cid |-> es_output_cid,
     curcid |-> curcid, scantuple |-> scantuple, path_values |-> path_values,
     tuple_info |-> tuple_info, heap |-> heap, next_id |-> next_id,
     deleted_vars |-> deleted_vars, dead |-> dead, props_ok |-> props_ok,
     trace |-> trace, retid |-> 0]

Event(ev, pos, id, start_id, end_id) ==
    [ev |-> ev, pos |-> pos, id |-> id, start_id |-> start_id, end_id |-> end_id]

Log(st, ev, pos, id) == [st EXCEPT !.trace = Append(@, Event(ev, pos, id, 0, 0))]

\* ereport(ERROR, ...): the statement aborts here.
Raise(st, pos, e, name) ==
    [st EXCEPT !.err = e, !.errvar = name,
               !.trace = Append(@, Event("raise", pos, 0, 0, 0))]


\* --------------------------------------------------------------- the walk
\* heap_beginscan(rel, estate->es_snapshot, ...) and heap_getnext: a tuple
\* with this graphid that the snapshot sees.  An entity of an earlier
\* statement is seen unless a clause of the subtree deleted it; a tuple of
\* this statement is seen when its command id is below the snapshot's.
entity_exists(st, id) ==
    \/ id \in 1..MaxRows /\ id \notin st.dead
    \/ \E k \in DOMAIN st.heap :
          st.heap[k].id = id /\ st.heap[k].cmin < st.curcid

\* An insert stamped with the command id before the output command id.
insert_entity_tuple_EarlierCid(st, pos, tuple) ==
    IF ~st.props_ok
    THEN Raise(st, pos, "ConstraintViolation", NULL)
    ELSE [st EXCEPT
            !.heap = Append(@, [tuple EXCEPT !.cmin = st.es_output_cid - 1]),
            !.trace = Append(@, Event("insert", pos, tuple.id,
                                      tuple.start_id, tuple.end_id))]

\* ExecConstraints, heap_insert with estate->es_output_cid, index entries.
insert_entity_tuple(st, pos, tuple) ==
    IF ~st.props_ok
    THEN Raise(st, pos, "ConstraintViolation", NULL)
    ELSE [st EXCEPT
            !.heap = Append(@, [tuple EXCEPT !.cmin = st.es_output_cid]),
            !.trace = Append(@, Event("insert", pos, tuple.id,
                                      tuple.start_id, tuple.end_id))]

Tuple(pos, type, id, start_id, end_id, row) ==
    [pos |-> pos, type |-> type, id |-> id, start_id |-> start_id,
     end_id |-> end_id, cmin |-> 0, row |-> row]

\* css->tuple_info gets the tuple of a target node that has a variable name.
add_tuple_info(st, node) ==
    IF node.variable_name # NULL
    THEN [st EXCEPT !.tuple_info = Append(@, node.variable_name)]
    ELSE st

\* A new vertex whose datum goes to the path list only.
VertexOutput_NoBind(st, pos, node, id) ==
    IF CYPHER_TARGET_NODE_OUTPUT(node.flags) /\ CYPHER_TARGET_NODE_IN_PATH(node.flags)
    THEN [Log(st, "append", pos, id) EXCEPT
             !.path_values = Append(@, make_vertex(id))]
    ELSE st

\* The datum of a new vertex goes to the path list and to the variable's slot.
VertexOutput(st, pos, node, id) ==
    IF CYPHER_TARGET_NODE_OUTPUT(node.flags)
    THEN LET s1 == IF CYPHER_TARGET_NODE_IN_PATH(node.flags)
                   THEN [Log(st, "append", pos, id) EXCEPT
                            !.path_values = Append(@, make_vertex(id))]
                   ELSE st
         IN  IF CYPHER_TARGET_NODE_IS_VARIABLE(node.flags)
             THEN [Log(s1, "bind", pos, id) EXCEPT
                      !.scantuple[node.tuple_position] = make_vertex(id)]
             ELSE s1
    ELSE st

\* create_vertex, the branch of a vertex to insert, after the insert: the
\* tuple's record and the datum.  What it returns has the id in retid.
VertexInserted(s2, pos, node, id) ==
    IF s2.err # "none" THEN s2
    ELSE [VertexOutput(add_tuple_info(s2, node), pos, node, id)
             EXCEPT !.retid = id]

\* A vertex to insert that takes the graphid at hand without asking for the
\* next one.
VertexInsert_ReusesId(st, pos, node, row) ==
    VertexInserted(
        insert_entity_tuple(st, pos, Tuple(pos, "vertex", st.next_id, 0, 0, row)),
        pos, node, st.next_id)

\* create_vertex, the branch of a vertex to insert: a fresh graphid, then
\* the insert.
VertexInsert(st, pos, node, row) ==
    VertexInserted(
        insert_entity_tuple([st EXCEPT !.next_id = @ + 1], pos,
                            Tuple(pos, "vertex", st.next_id, 0, 0, row)),
        pos, node, st.next_id)

\* A check that trusts the deleted mark alone.
IsStale_MarkOnly(st, node, id) == node.variable_name \in st.deleted_vars

\* The two-part check of a vertex that is not safe to skip: the deleted mark
\* of the variable's recorded tuple, then (only if that is not set) the scan.
IsStale(st, node, id) ==
    node.variable_name \in st.deleted_vars \/ ~entity_exists(st, id)

Lookups(st, pos, node, id) ==
    IF node.variable_name \in st.deleted_vars
    THEN Log(st, "get_heap_tuple", pos, id)
    ELSE Log(Log(st, "get_heap_tuple", pos, id), "entity_exists", pos, id)

LivenessCheck(st, pos, node, id) ==
    IF IsStale(st, node, id)
    THEN Raise(Lookups(st, pos, node, id), pos, "StaleReference",
               node.variable_name)
    ELSE Lookups(st, pos, node, id)

\* A vertex bound earlier that is recorded and bound again as if it were new.
VertexChecked_Records(s1, pos, node, v) ==
    IF s1.err # "none" THEN s1
    ELSE [add_tuple_info(Log(s1, "bind", pos, v.id), node) EXCEPT
             !.scantuple[node.tuple_position] = make_vertex(v.id),
             !.retid = v.id]

\* create_vertex, the branch of a vertex bound earlier, after the check: the
\* bound datum goes to the path list.
VertexChecked(s1, pos, node, v) ==
    IF s1.err # "none" THEN s1
    ELSE IF CYPHER_TARGET_NODE_IN_PATH(node.flags)
    THEN [Log(s1, "append", pos, v.id) EXCEPT
             !.path_values = Append(@, v), !.retid = v.id]
    ELSE [s1 EXCEPT !.retid = v.id]

\* A branch that takes the slot's datum for a vertex without looking.
VertexBound_Unchecked(st, pos, node, v) ==
    VertexChecked(IF ~SAFE_TO_SKIP_EXISTENCE_CHECK(node.flags)
                  THEN LivenessCheck(st, pos, node, v.id)
                  ELSE st,
                  pos, node, v)

\* A branch that checks every vertex bound earlier, safe to skip or not.
VertexBound_AlwaysChecked(st, pos, node, v) ==
    IF v.type # "vertex"
    THEN Raise(st, pos, "TypeMismatch", NULL)
    ELSE VertexChecked(LivenessCheck(st, pos, node, v.id), pos, node, v)

\* create_vertex, the branch of a vertex bound earlier: the slot's datum v
\* must be a vertex, its id is the vertex's id, and it must still exist.
VertexBound(st, pos, node, v) ==
    IF v.type # "vertex"
    THEN Raise(st, pos, "TypeMismatch", NULL)
    ELSE VertexChecked(IF ~SAFE_TO_SKIP_EXISTENCE_CHECK(node.flags)
                       THEN LivenessCheck(st, pos, node, v.id)
                       ELSE st,
                       pos, node, v)

VertexReference(st, pos, node) ==
    VertexBound(st, pos, node, st.scantuple[node.tuple_position])

\* Ends that do not look at the direction.
EdgeEndpoints_NoSwap(dir, prev_vertex_id, next_vertex_id) ==
    <<prev_vertex_id, next_vertex_id>>

\* The start and end of an edge from its direction.
EdgeEndpoints(dir, prev_vertex_id, next_vertex_id) ==
    IF dir = "right" THEN <<prev_vertex_id, next_vertex_id>>
    ELSE <<next_vertex_id, prev_vertex_id>>

\* An edge datum added to the path list as it stands, without what was
\* gathered before the edge.
EdgeOutput_NoPrefix(st, pos, node, id, ends, prev_path) ==
    IF CYPHER_TARGET_NODE_OUTPUT(node.flags)
    THEN [Log(st, "append", pos, id) EXCEPT
             !.path_values = Append(@, make_edge(id, ends[1], ends[2]))]
    ELSE st

\* The datum of an edge goes to the path list, between what was gathered
\* before the edge and what the rest of the path gathered, and to its slot.
EdgeOutput(st, pos, node, id, ends, prev_path) ==
    IF CYPHER_TARGET_NODE_OUTPUT(node.flags)
    THEN LET s1 == IF CYPHER_TARGET_NODE_IN_PATH(node.flags)
                   THEN [Log(st, "append", pos, id) EXCEPT
                            !.path_values =
                                Append(prev_path, make_edge(id, ends[1], ends[2]))
                                \o @]
                   ELSE st
         IN  IF CYPHER_TARGET_NODE_IS_VARIABLE(node.flags)
             THEN [Log(s1, "bind", pos, id) EXCEPT
                      !.scantuple[node.tuple_position] =
                          make_edge(id, ends[1], ends[2])]
             ELSE s1
    ELSE st

\* create_edge after the insert: the tuple's record and the datum.
EdgeInserted(s2, pos, node, id, ends, prev_path) ==
    IF s2.err # "none" THEN s2
    ELSE EdgeOutput(add_tuple_info(s2, node), pos, node, id, ends, prev_path)

\* create_edge once the ends are known: a fresh graphid, then the insert.
EdgeWithEnds(st, pos, node, ends, prev_path, row) ==
    EdgeInserted(
        insert_entity_tuple([st EXCEPT !.next_id = @ + 1], pos,
                            Tuple(pos, "edge", st.next_id, ends[1], ends[2], row)),
        pos, node, st.next_id, ends, prev_path)

\* An edge without a direction taken for a left one.
EdgeInsert_DefaultLeft(st, pos, node, prev_vertex_id, next_vertex_id, prev_path, row) ==
    EdgeWithEnds(st, pos, node,
                 EdgeEndpoints(node.dir, prev_vertex_id, next_vertex_id),
                 prev_path, row)

\* create_edge after the next vertex has come back: the direction decides
\* the ends, and an edge without one is an error.
EdgeInsert(st, pos, node, prev_vertex_id, next_vertex_id, prev_path, row) ==
    IF node.dir \notin {"right", "left"}
    THEN Raise(st, pos, "MissingDirection", NULL)
    ELSE EdgeWithEnds(st, pos, node,
                      EdgeEndpoints(node.dir, prev_vertex_id, next_vertex_id),
                      prev_path, row)

RECURSIVE create_vertex(_, _, _), create_edge(_, _, _, _)

\* create_edge from the return of create_vertex on: s2.retid is the next
\* vertex's id, prev_path the path list as it was when the edge was entered.
EdgeAfterVertex(s2, pos, prev_vertex_id, prev_path, row) ==
    IF s2.err # "none" THEN s2
    ELSE EdgeInsert(s2, pos, Node(pos), prev_vertex_id, s2.retid, prev_path, row)

\* An edge that looks at its direction before it creates the next vertex.
create_edge_ChecksFirst(st, pos, prev_vertex_id, row) ==
    IF Node(pos).dir \notin {"right", "left"}
    THEN Raise(Log(st, "edge", pos, prev_vertex_id), pos, "MissingDirection", NULL)
    ELSE EdgeAfterVertex(
             create_vertex([Log(st, "edge", pos, prev_vertex_id) EXCEPT
                               !.path_values = <<>>],
                           <<pos[1], pos[2] + 1>>, row),
             pos, prev_vertex_id, st.path_values, row)

\* create_edge(css, node, prev_vertex_id, next): pos is the edge's place.  The
\* path list is emptied and the next vertex is created first.
create_edge(st, pos, prev_vertex_id, row) ==
    EdgeAfterVertex(
        create_vertex([Log(st, "edge", pos, prev_vertex_id) EXCEPT
                          !.path_values = <<>>],
                      <<pos[1], pos[2] + 1>>, row),
        pos, prev_vertex_id, st.path_values, row)

\* create_vertex returns its own id, whatever the rest of the path returned.
VertexReturn(s3, id) ==
    IF s3.err # "none" THEN s3 ELSE [s3 EXCEPT !.retid = id]

\* A vertex that goes on with the next edge whatever its branch raised.
VertexNext_GoesOn(s1, pos, row) ==
    IF pos[2] < PathLen(pos[1])
    THEN VertexReturn(create_edge(Log(s1, "resolved", pos, s1.retid),
                                  <<pos[1], pos[2] + 1>>, s1.retid, row),
                      s1.retid)
    ELSE Log(s1, "resolved", pos, s1.retid)

\* create_vertex from the end of its branch on: the path goes on with the
\* next edge when the vertex is not the last target node of its path.
VertexNext(s1, pos, row) ==
    IF s1.err # "none" THEN s1
    ELSE IF pos[2] < PathLen(pos[1])
    THEN VertexReturn(create_edge(Log(s1, "resolved", pos, s1.retid),
                                  <<pos[1], pos[2] + 1>>, s1.retid, row),
                      s1.retid)
    ELSE Log(s1, "resolved", pos, s1.retid)

VertexBranch(s0, pos, node, row) ==
    IF CYPHER_TARGET_NODE_INSERT_ENTITY(node.flags)
    THEN VertexInsert(s0, pos, node, row)
    ELSE VertexReference(s0, pos, node)

\* A vertex to insert that takes its graphid, walks the rest of the path
\* and stores its own tuple only then.
VertexStoredLate(s3, pos, node, id, row) ==
    IF s3.err # "none" THEN s3
    ELSE VertexReturn(
             VertexInserted(
                 insert_entity_tuple(s3, pos, Tuple(pos, "vertex", id, 0, 0, row)),
                 pos, node, id),
             id)

create_vertex_EdgeFirst(st, pos, row) ==
    IF CYPHER_TARGET_NODE_INSERT_ENTITY(Node(pos).flags) /\ pos[2] < PathLen(pos[1])
    THEN VertexStoredLate(
             create_edge(Log(Log([st EXCEPT !.next_id = @ + 1], "vertex", pos, 0),
                             "resolved", pos, st.next_id),
                         <<pos[1], pos[2] + 1>>, st.next_id, row),
             pos, Node(pos), st.next_id, row)
    ELSE VertexNext(VertexBranch(Log(st, "vertex", pos, 0), pos, Node(pos), row),
                    pos, row)

\* create_vertex(css, node, next): pos is the vertex's place.
create_vertex(st, pos, row) ==
    VertexNext(VertexBranch(Log(st, "vertex", pos, 0), pos, Node(pos), row),
               pos, row)

\* A walk that leaves the path list as it is when the path is done.
PathWalked_KeepsList(s1, p) ==
    IF s1.err # "none" THEN s1
    ELSE IF path_attr_num(p) # InvalidAttrNumber
    THEN [Log(s1, "bind", <<p, 0>>, 0) EXCEPT
             !.scantuple[path_attr_num(p)] = make_path(s1.path_values)]
    ELSE s1

\* process_pattern after the walk of path p: the path datum into the path
\* variable's slot, the path list emptied.
PathWalked(s1, p) ==
    IF s1.err # "none" THEN s1
    ELSE IF path_attr_num(p) # InvalidAttrNumber
    THEN [Log(s1, "bind", <<p, 0>>, 0) EXCEPT
             !.scantuple[path_attr_num(p)] = make_path(s1.path_values),
             !.path_values = <<>>]
    ELSE [s1 EXCEPT !.path_values = <<>>]

\* One path of process_pattern: the walk from the first vertex on.
ProcessPath(st, p, row) ==
    PathWalked(create_vertex(Log(st, "path", <<p, 0>>, Len(st.path_values)),
                             <<p, 1>>, row),
               p)

\* The paths of the pattern walked from the last one to the first.
PathAfterRest(s, p, row) ==
    IF s.err # "none" THEN s ELSE ProcessPath(s, p, row)

RECURSIVE ProcessPaths_Backwards(_, _, _)
ProcessPaths_Backwards(st, p, row) ==
    IF p > NumPaths \/ st.err # "none" THEN st
    ELSE PathAfterRest(ProcessPaths_Backwards(st, p + 1, row), p, row)

RECURSIVE ProcessPaths(_, _, _)
ProcessPaths(st, p, row) ==
    IF p > NumPaths \/ st.err # "none" THEN st
    ELSE ProcessPaths(ProcessPath(st, p, row), p + 1, row)

\* process_pattern(css) for the row numbered row.
process_pattern(st, row) ==
    ProcessPaths([st EXCEPT !.tuple_info = <<>>, !.trace = <<>>], 1, row)

\* ------------------------------------------------------------ the callbacks
\* The two command ids of the estate move together around a pull.
\* A pull made with the command ids moved up instead of down.
Decrement_Estate_CommandId_Up(estate) ==
    [es_output_cid |-> estate.es_output_cid + 1, curcid |-> estate.curcid + 1]

Decrement_Estate_CommandId(estate) ==
    [es_output_cid |-> estate.es_output_cid - 1, curcid |-> estate.curcid - 1]

\* Command ids that come back from a pull one step too high.
Increment_Estate_CommandId_Twice(estate) ==
    [es_output_cid |-> estate.es_output_cid + 2, curcid |-> estate.curcid + 2]

Increment_Estate_CommandId(estate) ==
    [es_output_cid |-> estate.es_output_cid + 1, curcid |-> estate.curcid + 1]

InsertPositions ==
    {pos \in Positions : CYPHER_TARGET_NODE_INSERT_ENTITY(Node(pos).flags)}

Init ==
    /\ pattern \in Patterns
    /\ terminal \in BOOLEAN
    /\ phase = "uninit"
    /\ in_exec = FALSE
    /\ err = "none"
    /\ errvar = NULL
    /\ curcid = 1
    /\ es_output_cid \in {0, curcid}
    /\ commandId = 1
    /\ rels = [pos \in Positions |-> 0]
    /\ scantuple = [s \in Slots |-> NullDatum]
    /\ path_values = <<>>
    /\ tuple_info = <<>>
    /\ heap = <<>>
    /\ next_id = MaxRows + 1
    /\ deleted_vars = {}
    /\ dead = {}
    /\ props_ok = TRUE
    /\ trace = <<>>
    /\ last_pull = [es_output_cid |-> 0, curcid |-> 0]
    /\ ret = "none"
    /\ n_calls = 0
    /\ n_rows = 0
    /\ n_null = 0
    /\ n_exec = 0
    /\ n_emitted = 0
    /\ op = "create_cypher_create_plan_state"

\* A begin that opens a relation for every target node, bound earlier or not.
OpenRelations_All(r) == [pos \in Positions |-> r[pos] + 1]

\* begin_cypher_create: the subtree is initialised, the relation of every
\* target node to insert is opened, the command ids are set up and advanced.
OpenRelations(r) ==
    [pos \in Positions |-> IF pos \in InsertPositions THEN r[pos] + 1 ELSE r[pos]]

BeginCommandIds(estate) ==
    Increment_Estate_CommandId(
        [es_output_cid |-> IF estate.es_output_cid = 0 THEN estate.curcid
                           ELSE estate.es_output_cid,
         curcid |-> estate.curcid])

begin_cypher_create ==
    /\ phase = "uninit"
    /\ phase' = "open"
    /\ rels' = OpenRelations(rels)
    /\ LET e == BeginCommandIds([es_output_cid |-> es_output_cid, curcid |-> curcid])
       IN  es_output_cid' = e.es_output_cid /\ curcid' = e.curcid
    /\ commandId' = commandId + 1
    /\ op' = "begin"
    /\ UNCHANGED <<pattern, terminal, in_exec, err, errvar, scantuple, path_values,
                   tuple_info, heap, next_id, deleted_vars, dead, props_ok, trace,
                   last_pull, ret, n_calls, n_rows, n_null, n_exec,
                   n_emitted>>

\* What the subtree can say of the variable it binds: the vertex is there,
\* its recorded tuple is marked deleted, the vertex was deleted through
\* another variable, or the slot holds something that is no vertex.
ReadsX == \E pos \in Positions : Node(pos).tuple_position = X

XStatuses == IF ReadsX THEN {"live", "marked", "gone", "other"} ELSE {"live"}

\* ExecProcNode(lefttree) handing up row number row: the scan tuple's slot of
\* the subtree's variable, and the marks the earlier clauses left.
PullRow(st, row, status, ok) ==
    [st EXCEPT
        !.scantuple[X] = IF status = "other" THEN make_edge(row, 0, 0)
                         ELSE make_vertex(row),
        !.deleted_vars = IF status = "marked" THEN {X} ELSE {},
        !.dead = IF status = "gone" THEN @ \cup {row} ELSE @,
        !.props_ok = ok]

\* A pass that hands the row up in terminal mode too.
ReturnsRow_Always(s1, got) == got /\ s1.err = "none"

\* A pass that hands no row up in either mode.
ReturnsRow_Never(s1, got) == FALSE

\* The row goes up to the caller only when the clause is not the last one.
ReturnsRow(s1, got) == got /\ ~terminal /\ s1.err = "none"

\* What a pass of exec_cypher_create leaves: s1 is the state after the pull
\* and, when the subtree had a row, after process_pattern.
ExecResult(s1, got, down) ==
    /\ last_pull' = down
    /\ n_rows' = IF got THEN n_rows + 1 ELSE n_rows
    /\ n_null' = IF got THEN n_null ELSE n_null + 1
    /\ n_exec' = IF got THEN n_exec + 1 ELSE n_exec
    /\ n_calls' = IF in_exec THEN n_calls ELSE n_calls + 1
    /\ phase' = IF got THEN phase ELSE "exhausted"
    /\ in_exec' = (terminal /\ got)
    /\ ret' = IF ~got THEN "NULL"
              ELSE IF ReturnsRow(s1, got) THEN "row"
              ELSE "none"
    /\ n_emitted' = IF ReturnsRow(s1, got) THEN n_emitted + 1 ELSE n_emitted
    /\ err' = s1.err
    /\ errvar' = s1.errvar
    /\ es_output_cid' = s1.es_output_cid
    /\ curcid' = s1.curcid
    /\ scantuple' = s1.scantuple
    /\ path_values' = s1.path_values
    /\ tuple_info' = s1.tuple_info
    /\ heap' = s1.heap
    /\ next_id' = s1.next_id
    /\ deleted_vars' = s1.deleted_vars
    /\ dead' = s1.dead
    /\ props_ok' = s1.props_ok
    /\ trace' = s1.trace

\* The state after the pull: the command ids are back up.
Pulled(up) ==
    [State EXCEPT !.es_output_cid = up.es_output_cid, !.curcid = up.curcid]

\* One pull and what exec_cypher_create does with it.  got: the subtree has
\* a row.  In terminal mode this is one pass of the loop, and the call
\* returns NULL when the subtree has no row; otherwise it is the whole call.
ExecPulled(got, status, ok, down) ==
    ExecResult(IF got
               THEN process_pattern(
                        PullRow(Pulled(Increment_Estate_CommandId(down)),
                                n_rows + 1, status, ok),
                        n_rows + 1)
               ELSE Pulled(Increment_Estate_CommandId(down)),
               got, down)

\* A pass that refuses to run once the subtree has been seen empty.
ExecStep_Rejects(got, status, ok) ==
    IF phase = "exhausted"
    THEN ExecResult([State EXCEPT !.err = "UnsupportedReiteration"], got,
                    [es_output_cid |-> es_output_cid, curcid |-> curcid])
    ELSE ExecPulled(got, status, ok,
                    Decrement_Estate_CommandId(
                        [es_output_cid |-> es_output_cid, curcid |-> curcid]))

ExecStep(got, status, ok) ==
    ExecPulled(got, status, ok,
               Decrement_Estate_CommandId(
                   [es_output_cid |-> es_output_cid, curcid |-> curcid]))

exec_cypher_create ==
    /\ phase \in {"open", "exhausted"}
    /\ err = "none"
    /\ \E got \in BOOLEAN, status \in XStatuses, ok \in BOOLEAN :
          /\ got => phase = "open" /\ n_rows < MaxRows
          /\ ~got => n_null < MaxNullPulls /\ status = "live" /\ ok
          /\ ~ok => status = "live"
          /\ ExecStep(got, status, ok)
    /\ op' = "exec"
    /\ UNCHANGED <<pattern, terminal, commandId, rels>>

\* end_cypher_create: the subtree is ended, the indices and the relation of
\* every target node to insert are closed.
CloseRelations(r) ==
    [pos \in Positions |-> IF pos \in InsertPositions THEN r[pos] - 1 ELSE r[pos]]

\* An end that is also run when the statement has raised an error.
end_cypher_create_AfterError ==
    /\ phase \in {"open", "exhausted"}
    /\ ~in_exec \/ err # "none"
    /\ phase' = "closed"
    /\ rels' = CloseRelations(rels)
    /\ op' = "end"
    /\ UNCHANGED <<pattern, terminal, in_exec, err, errvar, es_output_cid, curcid,
                   commandId, scantuple, path_values, tuple_info, heap, next_id,
                   deleted_vars, dead, props_ok, trace, last_pull, ret, n_calls,
                   n_rows, n_null, n_exec, n_emitted>>

end_cypher_create ==
    /\ phase \in {"open", "exhausted"}
    /\ ~in_exec
    /\ err = "none"
    /\ phase' = "closed"
    /\ rels' = CloseRelations(rels)
    /\ op' = "end"
    /\ UNCHANGED <<pattern, terminal, in_exec, err, errvar, es_output_cid, curcid,
                   commandId, scantuple, path_values, tuple_info, heap, next_id,
                   deleted_vars, dead, props_ok, trace, last_pull, ret, n_calls,
                   n_rows, n_null, n_exec, n_emitted>>

\* A rescan that starts the scan over.
rescan_cypher_create_Restarts ==
    /\ phase \in {"open", "exhausted"}
    /\ ~in_exec
    /\ err = "none"
    /\ phase' = "open"
    /\ op' = "rescan"
    /\ UNCHANGED <<pattern, terminal, in_exec, err, errvar, es_output_cid, curcid,
                   commandId, rels, scantuple, path_values, tuple_info, heap,
                   next_id, deleted_vars, dead, props_ok, trace, last_pull, ret,
                   n_calls, n_rows, n_null, n_exec, n_emitted>>

\* rescan_cypher_create: nothing but the error.
RescanError == "UnsupportedReiteration"

rescan_cypher_create ==
    /\ phase \in {"open", "exhausted"}
    /\ ~in_exec
    /\ err = "none"
    /\ err' = RescanError
    /\ op' = "rescan"
    /\ UNCHANGED <<pattern, terminal, phase, in_exec, errvar, es_output_cid, curcid,
                   commandId, rels, scantuple, path_values, tuple_info, heap,
                   next_id, deleted_vars, dead, props_ok, trace, last_pull, ret,
                   n_calls, n_rows, n_null, n_exec, n_emitted>>

Next ==
    \/ begin_cypher_create
    \/ exec_cypher_create
    \/ end_cypher_create
    \/ rescan_cypher_create

Spec == Init /\ [][Next]_vars


\* ----------------------------------------------------- reading the history
\* The places of the walk's events of one kind at one target node.
At(ev, pos) == {k \in DOMAIN trace : trace[k].ev = ev /\ trace[k].pos = pos}

Did(ev, pos) == At(ev, pos) # {}

When(ev, pos) == CHOOSE k \in At(ev, pos) : TRUE

\* The id create_vertex came back with for the vertex at pos.
ResolvedId(pos) == trace[When("resolved", pos)].id

\* The tuples the walk of the current row has written.
RowTuples == {k \in DOMAIN heap : heap[k].row = n_rows}

TupleOf(pos) == CHOOSE k \in RowTuples : heap[k].pos = pos

Stored(pos) == \E k \in RowTuples : heap[k].pos = pos

EdgePositions == {pos \in Positions : Node(pos).type = "edge"}

VertexPositions == {pos \in Positions : Node(pos).type = "vertex"}

Prev(pos) == <<pos[1], pos[2] - 1>>

Succ(pos) == <<pos[1], pos[2] + 1>>

\* pos comes after q in the walk's order of target nodes.
After(pos, q) == Before(q, pos)

RaisedAt == trace[Len(trace)].pos

\* ------------------------------------------------------------------ properties

\* C1: every edge the walk has stored has, when its direction is right, the
\* id resolved for the vertex before it as start_id and the id resolved for
\* the vertex after it as end_id, and the two the other way round when its
\* direction is left, whatever the modes of the two vertices.
C1_EndpointCorrectness ==
    \A pos \in EdgePositions :
        Stored(pos) =>
            /\ Did("resolved", Prev(pos)) /\ Did("resolved", Succ(pos))
            /\ Node(pos).dir \in {"right", "left"}
            /\ Node(pos).dir = "right" =>
                  /\ heap[TupleOf(pos)].start_id = ResolvedId(Prev(pos))
                  /\ heap[TupleOf(pos)].end_id = ResolvedId(Succ(pos))
            /\ Node(pos).dir = "left" =>
                  /\ heap[TupleOf(pos)].start_id = ResolvedId(Succ(pos))
                  /\ heap[TupleOf(pos)].end_id = ResolvedId(Prev(pos))

\* A path of two edges, one left and one right, between a vertex bound
\* earlier and vertices to insert, all stored.
C1_Witness ==
    /\ err = "none"
    /\ Stored(<<1, 2>>) /\ Stored(<<1, 4>>)
    /\ Node(<<1, 2>>).dir = "left" /\ Node(<<1, 4>>).dir = "right"
    /\ ~CYPHER_TARGET_NODE_INSERT_ENTITY(Node(<<1, 1>>).flags)
    /\ CYPHER_TARGET_NODE_INSERT_ENTITY(Node(<<1, 3>>).flags)
    /\ heap[TupleOf(<<1, 2>>)].start_id # heap[TupleOf(<<1, 2>>)].end_id

\* C2: when an edge is stored, both vertices next to it have been resolved
\* earlier in the same walk, with the ids the edge carries: a vertex to
\* insert has been stored, a vertex bound earlier has been through its check.
EndpointReady(v, k) ==
    /\ Did("resolved", v) /\ When("resolved", v) < k
    /\ IF CYPHER_TARGET_NODE_INSERT_ENTITY(Node(v).flags)
       THEN /\ Did("insert", v) /\ When("insert", v) < k
            /\ Stored(v) /\ TupleOf(v) < TupleOf(<<v[1], trace[k].pos[2]>>)
            /\ heap[TupleOf(v)].id = ResolvedId(v)
       ELSE /\ Did("vertex", v) /\ When("vertex", v) < k
            /\ ~SAFE_TO_SKIP_EXISTENCE_CHECK(Node(v).flags) =>
                  Did("get_heap_tuple", v) /\ When("get_heap_tuple", v) < k

C2_EndpointsResolvedFirst ==
    [](\A k \in DOMAIN trace :
           (trace[k].ev = "insert" /\ trace[k].pos \in EdgePositions) =>
               /\ EndpointReady(Prev(trace[k].pos), k)
               /\ EndpointReady(Succ(trace[k].pos), k)
               /\ {trace[k].start_id, trace[k].end_id} =
                     {ResolvedId(Prev(trace[k].pos)), ResolvedId(Succ(trace[k].pos))})

\* An edge stored between a vertex that was inserted and one bound earlier
\* that went through the existence check.
C2_Witness ==
    /\ Did("insert", <<1, 2>>)
    /\ Did("insert", <<1, 1>>)
    /\ Did("entity_exists", <<1, 3>>)

\* C3: after the walk of a path that has a path variable and whose target
\* nodes are all in the path and give output, the path variable's slot holds
\* a path of as many datums as the path has target nodes (2k+1 for k edges),
\* vertex datums at the odd places and edge datums at the even ones, the
\* datum at place i being that of target node i.
AllInPath(p) ==
    \A i \in 1..PathLen(p) :
        /\ CYPHER_TARGET_NODE_IN_PATH(Node(<<p, i>>).flags)
        /\ CYPHER_TARGET_NODE_INSERT_ENTITY(Node(<<p, i>>).flags) =>
              CYPHER_TARGET_NODE_OUTPUT(Node(<<p, i>>).flags)

PathDatumOf(pos) ==
    IF Node(pos).type = "vertex"
    THEN make_vertex(ResolvedId(pos))
    ELSE make_edge(heap[TupleOf(pos)].id, heap[TupleOf(pos)].start_id,
                   heap[TupleOf(pos)].end_id)

C3_PathShape ==
    (err = "none" /\ n_exec > 0) =>
        \A p \in 1..NumPaths :
            (path_attr_num(p) # InvalidAttrNumber /\ AllInPath(p)) =>
                /\ scantuple[path_attr_num(p)].type = "path"
                /\ Len(scantuple[path_attr_num(p)].elems) = PathLen(p)
                /\ Len(scantuple[path_attr_num(p)].elems) % 2 = 1
                /\ \A i \in 1..PathLen(p) :
                      scantuple[path_attr_num(p)].elems[i] = PathDatumOf(<<p, i>>)

\* A path of two edges bound to its path variable.
C3_Witness ==
    /\ err = "none" /\ n_exec > 0
    /\ PathLen(1) = 5
    /\ path_attr_num(1) # InvalidAttrNumber
    /\ Len(scantuple[path_attr_num(1)].elems) = 5
    /\ ~CYPHER_TARGET_NODE_INSERT_ENTITY(Node(<<1, 3>>).flags)


\* C4: a vertex bound earlier that is not safe to skip, whose slot holds a
\* vertex datum: when the variable's recorded tuple is marked deleted or the
\* existence scan finds no live entity with the datum's id, its resolution
\* raises StaleReference naming the variable; otherwise it succeeds and the
\* id it comes back with is the id in the datum.
CheckedPositions ==
    {pos \in VertexPositions :
        /\ ~CYPHER_TARGET_NODE_INSERT_ENTITY(Node(pos).flags)
        /\ ~SAFE_TO_SKIP_EXISTENCE_CHECK(Node(pos).flags)}

SkippedPositions ==
    {pos \in VertexPositions :
        /\ ~CYPHER_TARGET_NODE_INSERT_ENTITY(Node(pos).flags)
        /\ SAFE_TO_SKIP_EXISTENCE_CHECK(Node(pos).flags)}

BoundDatum(pos) == scantuple[Node(pos).tuple_position]

MarkedDeleted(pos) == Node(pos).variable_name \in deleted_vars

GoneFromStorage(pos) == ~entity_exists(State, BoundDatum(pos).id)

C4_ReferenceLiveness ==
    \A pos \in CheckedPositions :
        (Did("vertex", pos) /\ BoundDatum(pos).type = "vertex") =>
            IF MarkedDeleted(pos) \/ GoneFromStorage(pos)
            THEN /\ err = "StaleReference"
                 /\ errvar = Node(pos).variable_name
                 /\ trace[Len(trace)].ev = "raise" /\ RaisedAt = pos
                 /\ ~Did("resolved", pos)
            ELSE /\ Did("resolved", pos)
                 /\ ResolvedId(pos) = BoundDatum(pos).id
                 /\ ~(err = "StaleReference" /\ RaisedAt = pos)

\* The vertex's tuple is not marked deleted, yet the vertex is gone from
\* storage: deleted through another variable.
C4_Witness ==
    /\ err = "StaleReference"
    /\ RaisedAt \in CheckedPositions
    /\ ~MarkedDeleted(RaisedAt)
    /\ GoneFromStorage(RaisedAt)
    /\ n_rows = 2

\* C5: the resolution of a vertex bound earlier that is safe to skip does
\* neither lookup (the deleted mark, the existence scan) and raises no
\* StaleReference, also when its entity is gone from storage or marked.
C5_SkipCheck ==
    [](\A pos \in SkippedPositions :
           Did("vertex", pos) =>
               /\ ~Did("get_heap_tuple", pos)
               /\ ~Did("entity_exists", pos)
               /\ ~(err = "StaleReference" /\ RaisedAt = pos)
               /\ BoundDatum(pos).type = "vertex" =>
                     Did("resolved", pos) /\ ResolvedId(pos) = BoundDatum(pos).id)

\* A skipped vertex resolved although its entity was deleted through
\* another variable.
C5_Witness ==
    \E pos \in SkippedPositions :
        /\ Did("resolved", pos)
        /\ Node(pos).tuple_position = X
        /\ GoneFromStorage(pos)
        /\ err = "none"

\* C6: when the resolution of a vertex bound earlier raises StaleReference,
\* nothing that follows the vertex in its path is resolved or stored, neither
\* edge next to it is stored, and no later path is walked.
C6_StaleAborts ==
    err = "StaleReference" =>
        /\ \A k \in DOMAIN trace :
              trace[k].ev \in {"vertex", "edge", "resolved", "insert", "bind",
                               "append", "path", "get_heap_tuple",
                               "entity_exists"} =>
                  ~After(trace[k].pos, RaisedAt) \/ k = Len(trace)
        /\ \A k \in RowTuples : Before(heap[k].pos, RaisedAt)
        /\ \A pos \in EdgePositions :
              (Succ(pos) = RaisedAt \/ Prev(pos) = RaisedAt) => ~Stored(pos)
        /\ \A p \in 1..NumPaths : p > RaisedAt[1] => ~Did("path", <<p, 0>>)

\* (x)-[e]->(y), x stale and y to insert, and a second path after it.
C6_Witness ==
    /\ err = "StaleReference"
    /\ RaisedAt = <<1, 1>>
    /\ PathLen(1) = 3
    /\ CYPHER_TARGET_NODE_INSERT_ENTITY(Node(<<1, 3>>).flags)
    /\ NumPaths = 2

\* C7 as first stated: the resolution of an edge whose direction is neither
\* left nor right always fails with MissingDirection.
NoDirectionEntered ==
    {pos \in EdgePositions :
        Did("edge", pos) /\ Node(pos).dir \notin {"right", "left"}}

C7_AlwaysMissingDirection ==
    \A pos \in NoDirectionEntered : err = "MissingDirection"

\* C7 as amended: the resolution of an edge whose direction is neither left
\* nor right never completes: the statement fails with MissingDirection
\* raised for that edge or an edge after it, or with the error of a target
\* node that follows the edge in its path, which are resolved first; the edge
\* is never stored, never bound and never appended to a path.
C7_NoDirectionNeverStored ==
    \A pos \in NoDirectionEntered :
        /\ err \in {"MissingDirection", "TypeMismatch", "StaleReference",
                    "ConstraintViolation"}
        /\ trace[Len(trace)].ev = "raise"
        /\ RaisedAt[1] = pos[1] /\ RaisedAt[2] >= pos[2]
        /\ err # "MissingDirection" => RaisedAt[2] > pos[2]
        /\ RaisedAt = pos => err = "MissingDirection"
        /\ ~Stored(pos)
        /\ ~Did("insert", pos) /\ ~Did("bind", pos) /\ ~Did("append", pos)

\* MissingDirection raised for the first edge of a path of two edges, after
\* the second edge has been stored.
C7_Witness ==
    /\ err = "MissingDirection"
    /\ RaisedAt = <<1, 2>>
    /\ Stored(<<1, 4>>)

\* C8 as first stated: an exec call after exhaustion has been reported fails
\* with UnsupportedReiteration and pulls nothing.
C8_ExecAfterExhaustionFails ==
    [][(phase = "exhausted" /\ op' = "exec") =>
          (err' = "UnsupportedReiteration" /\ n_null' = n_null)]_vars

\* C8 as amended: an exec call after exhaustion has been reported is not
\* rejected: it raises no error, pulls the subtree once more and, the subtree
\* again having no row, stores nothing and returns end-of-output again.
C8_ExecAfterExhaustionPulls ==
    [][(phase = "exhausted" /\ op' = "exec") =>
          /\ err' = "none"
          /\ n_null' = n_null + 1
          /\ n_rows' = n_rows
          /\ ret' = "NULL"
          /\ heap' = heap
          /\ n_exec' = n_exec
          /\ phase' = "exhausted"]_vars

\* exec has been called after it had returned NULL, and after rows.
C8_Witness ==
    /\ op = "exec"
    /\ n_null = 2
    /\ err = "none"
    /\ Len(heap) > 0

\* C9: a rescan raises UnsupportedReiteration whenever it is called and
\* changes nothing else: no pull, no tuple, no slot, no command id.
C9_RescanAlwaysFails ==
    [][op' = "rescan" =>
          /\ err' = "UnsupportedReiteration"
          /\ UNCHANGED <<pattern, terminal, phase, in_exec, errvar, es_output_cid,
                         curcid, commandId, rels, scantuple, path_values,
                         tuple_info, heap, next_id, deleted_vars, dead, props_ok,
                         trace, last_pull, ret, n_calls, n_rows, n_null, n_exec,
                         n_emitted>>]_vars

\* A rescan asked for after rows were produced and exhaustion reported.
C9_Witness ==
    /\ op = "rescan"
    /\ err = "UnsupportedReiteration"
    /\ phase = "exhausted"
    /\ n_rows = 2

\* C10: in terminal mode an exec call goes on pulling until the subtree has
\* no row, runs the pattern once for each row pulled, hands no row to the
\* caller and returns end-of-output.
CompletedRows == IF err = "none" THEN 1..n_rows ELSE 1..(n_rows - 1)

C10_TerminalDrains ==
    terminal =>
        /\ n_emitted = 0
        /\ ret # "row"
        /\ n_exec = n_rows
        /\ \A r \in CompletedRows : \A pos \in InsertPositions :
              Cardinality({k \in DOMAIN heap :
                              heap[k].row = r /\ heap[k].pos = pos}) = 1
        /\ (n_calls > 0 /\ ~in_exec /\ err = "none") =>
              (ret = "NULL" /\ phase \in {"exhausted", "closed"} /\ n_null >= 1)
        /\ (in_exec /\ err = "none") => n_calls = n_null + 1
        /\ (~in_exec /\ err = "none") => n_calls = n_null

\* One terminal exec call that went through two rows and returned.
C10_Witness ==
    /\ terminal
    /\ n_calls = 1
    /\ ~in_exec
    /\ ret = "NULL"
    /\ n_rows = 2
    /\ err = "none"


\* C11: when the clause is not the last one, every exec call pulls the
\* subtree once; with a row it runs the pattern once and hands one row up,
\* without a row it returns NULL and stores nothing.  The rows handed up, the
\* rows pulled and the runs of the pattern are as many.
RowComplete(r) ==
    \A pos \in InsertPositions :
        Cardinality({k \in DOMAIN heap : heap[k].row = r /\ heap[k].pos = pos}) = 1

C11_Passthrough ==
    /\ [](~terminal =>
            /\ ~in_exec
            /\ n_exec = n_rows
            /\ n_calls = n_rows + n_null
            /\ n_emitted = IF err \in {"none", "UnsupportedReiteration"}
                           THEN n_rows ELSE n_rows - 1
            /\ \A r \in CompletedRows : RowComplete(r))
    /\ [][(~terminal /\ op' = "exec") =>
            /\ n_calls' = n_calls + 1
            /\ n_rows' + n_null' = n_rows + n_null + 1
            /\ n_null' = n_null + 1 =>
                  /\ ret' = "NULL"
                  /\ heap' = heap
                  /\ n_exec' = n_exec
                  /\ n_emitted' = n_emitted
            /\ n_rows' = n_rows + 1 =>
                  /\ n_exec' = n_exec + 1
                  /\ err' = "none" => (ret' = "row" /\ n_emitted' = n_emitted + 1)]_vars

\* Three calls: two rows handed up, then NULL.
C11_Witness ==
    /\ ~terminal
    /\ n_calls = 3
    /\ n_rows = 2
    /\ n_emitted = 2
    /\ n_null = 1
    /\ ret = "NULL"
    /\ Len(heap) > 0


\* C12: when the clause is not the last one and a row has been handed up,
\* the slot of every target node to insert that is an output variable holds
\* the datum of the tuple stored for it in this row (for an edge with the
\* stored start and end), and the slot of every path variable holds the
\* path datum of this row.
BindingPositions ==
    {pos \in InsertPositions :
        /\ CYPHER_TARGET_NODE_OUTPUT(Node(pos).flags)
        /\ CYPHER_TARGET_NODE_IS_VARIABLE(Node(pos).flags)}

StoredDatum(pos) ==
    IF Node(pos).type = "vertex"
    THEN make_vertex(heap[TupleOf(pos)].id)
    ELSE make_edge(heap[TupleOf(pos)].id, heap[TupleOf(pos)].start_id,
                   heap[TupleOf(pos)].end_id)

C12_RowBindings ==
    (~terminal /\ ret = "row" /\ err = "none") =>
        /\ \A pos \in BindingPositions :
              /\ Stored(pos)
              /\ scantuple[Node(pos).tuple_position] = StoredDatum(pos)
        /\ \A p \in 1..NumPaths :
              path_attr_num(p) # InvalidAttrNumber =>
                  /\ scantuple[path_attr_num(p)].type = "path"
                  /\ \A i \in 1..PathLen(p) :
                        (CYPHER_TARGET_NODE_INSERT_ENTITY(Node(<<p, i>>).flags)
                         /\ CYPHER_TARGET_NODE_IN_PATH(Node(<<p, i>>).flags)
                         /\ CYPHER_TARGET_NODE_OUTPUT(Node(<<p, i>>).flags)) =>
                            \E j \in DOMAIN scantuple[path_attr_num(p)].elems :
                                scantuple[path_attr_num(p)].elems[j]
                                    = StoredDatum(<<p, i>>)

\* The second row handed up, of a pattern with a vertex variable, an edge
\* variable and a path variable.
C12_Witness ==
    /\ ~terminal
    /\ ret = "row"
    /\ err = "none"
    /\ n_rows = 2
    /\ pattern.named
    /\ pattern.in_path
    /\ PathLen(1) = 3
    /\ <<1, 1>> \in BindingPositions
    /\ <<1, 2>> \in BindingPositions


\* C13: one graphid is asked for each tuple the clause stores, and it is the
\* tuple's own: no two stored tuples, of one row or of different rows, have
\* the same id, and none has the id of a vertex that was there before.
IdsAsked == next_id - (MaxRows + 1)

C13_FreshIds ==
    /\ \A i \in DOMAIN heap : \A j \in DOMAIN heap :
          i # j => heap[i].id # heap[j].id
    /\ \A i \in DOMAIN heap : heap[i].id \notin 1..MaxRows
    /\ IdsAsked = Len(heap) + (IF err = "ConstraintViolation" THEN 1 ELSE 0)

\* Two rows of a pattern with two new vertices and the edge between them.
C13_Witness ==
    /\ err = "none"
    /\ n_rows = 2
    /\ PathLen(1) = 3
    /\ CYPHER_TARGET_NODE_INSERT_ENTITY(Node(<<1, 1>>).flags)
    /\ CYPHER_TARGET_NODE_INSERT_ENTITY(Node(<<1, 3>>).flags)
    /\ Len(heap) >= 6


\* C14: begin opens one relation for each target node to insert and none for
\* the others, exec opens and closes none of them, and end closes each once:
\* between begin and end exactly those are open, once each, and before begin
\* and after end none is.
C14_Handles ==
    /\ [](\A pos \in Positions :
            rels[pos] = IF phase \in {"open", "exhausted"} /\ pos \in InsertPositions
                        THEN 1 ELSE 0)
    /\ [][op' = "exec" => rels' = rels]_vars

\* begin, two rows with an existence scan, NULL, end: a pattern with a target
\* node to insert and one bound earlier.
C14_Witness ==
    /\ phase = "closed"
    /\ n_rows = 2
    /\ InsertPositions # {}
    /\ InsertPositions # Positions
    /\ \E pos \in Positions : Did("entity_exists", pos)
    /\ \A pos \in Positions : rels[pos] = 0

\* C15 as first stated: once an error has been raised no relation opened by
\* begin is still open.
C15_ReleasedOnError ==
    err # "none" => \A pos \in Positions : rels[pos] = 0

\* C15 as amended: the clause closes its relations in end_cypher_create only.
\* An error leaves the clause where it is raised: end has not run and does
\* not run, and every relation begin opened is still open, to be closed by
\* the abort of the enclosing transaction.
C15_HeldAfterError ==
    /\ [](err # "none" =>
            /\ phase \in {"open", "exhausted"}
            /\ \A pos \in InsertPositions : rels[pos] = 1)
    /\ [][err # "none" => rels' = rels /\ phase' = phase]_vars

\* A stale vertex in the second row of a pattern that has a relation open.
C15_Witness ==
    /\ err = "StaleReference"
    /\ n_rows = 2
    /\ \E pos \in InsertPositions : rels[pos] = 1


\* C16: at every pull of the subtree, the first, the later ones and the one
\* that brings no row, the snapshot's command id is not above the command id
\* of any tuple the clause has stored so far: the subtree sees none of them.
C16_SubtreeSeesNoInsert ==
    [][op' = "exec" =>
          \A k \in DOMAIN heap : ~(heap[k].cmin < last_pull'.curcid)]_vars

\* The pull that brings no row, after two rows that stored tuples.
C16_Witness ==
    /\ op = "exec"
    /\ ret = "NULL"
    /\ n_rows = 2
    /\ Len(heap) >= 2
    /\ \A k \in DOMAIN heap : last_pull.curcid <= heap[k].cmin

\* C17 as first stated: the command id stamped on a tuple the clause stores
\* and the command id of the snapshot its existence scans use make the tuple
\* visible to every scan the clause does afterwards.
C17_InsertsVisible ==
    \A k \in DOMAIN heap : heap[k].cmin < curcid

\* C17 as amended: a tuple the clause stores is stamped with the output
\* command id, which equals the command id of the snapshot the clause's
\* existence scans use; a scan sees a tuple only when the tuple's command id
\* is below the snapshot's, so no scan the clause does afterwards, in the
\* same row or in a later one, sees a tuple the clause has stored.
C17_InsertsNotSeen ==
    \A k \in DOMAIN heap :
        /\ heap[k].cmin = es_output_cid
        /\ heap[k].cmin = curcid
        /\ ~entity_exists(State, heap[k].id)

\* An existence scan in the second row, after a tuple stored earlier in that
\* row and the tuples of the first row.
C17_Witness ==
    /\ n_rows = 2
    /\ err = "none"
    /\ Did("insert", <<1, 1>>)
    /\ Did("entity_exists", <<1, 3>>)
    /\ When("insert", <<1, 1>>) < When("entity_exists", <<1, 3>>)
    /\ \E k \in DOMAIN heap : heap[k].row = 1


\* C18: a vertex bound earlier whose slot holds a datum that is no vertex
\* raises TypeMismatch before either lookup of the liveness check, before
\* its datum is added to the path list and before the edge after it, or
\* anything later, is entered, resolved or stored.
ReferencePositions == CheckedPositions \cup SkippedPositions

C18_TypeMismatchFirst ==
    [](\A pos \in ReferencePositions :
           (Did("vertex", pos) /\ BoundDatum(pos).type # "vertex") =>
               /\ err = "TypeMismatch"
               /\ trace[Len(trace)].ev = "raise" /\ RaisedAt = pos
               /\ ~Did("get_heap_tuple", pos)
               /\ ~Did("entity_exists", pos)
               /\ ~Did("append", pos)
               /\ ~Did("resolved", pos)
               /\ \A k \in DOMAIN trace : ~After(trace[k].pos, pos)
               /\ \A k \in RowTuples : Before(heap[k].pos, pos)
               /\ \A e \in EdgePositions :
                     (Succ(e) = pos \/ Prev(e) = pos) => ~Stored(e))

\* (a)-[e]->(x)-[f]->(b): x's slot holds an edge datum; a has been stored.
C18_Witness ==
    /\ err = "TypeMismatch"
    /\ RaisedAt = <<1, 3>>
    /\ PathLen(1) = 5
    /\ Stored(<<1, 1>>)
    /\ BoundDatum(<<1, 3>>).type = "edge"


\* C19: begin leaves the two command ids one above the snapshot's command id
\* the subtree was initialised under; every pull, in either mode and the one
\* without a row included, is made one below the ids exec found, that is
\* with the ids of before begin, and exec leaves them as it found them.  No
\* other step moves them, so they do not drift however many rows there are.
C19_CommandIds ==
    /\ [][op' = "begin" =>
            (curcid' = curcid + 1 /\ es_output_cid' = curcid + 1)]_vars
    /\ [][op' = "exec" =>
            /\ last_pull'.curcid = curcid - 1
            /\ last_pull'.es_output_cid = es_output_cid - 1
            /\ curcid' = curcid
            /\ es_output_cid' = es_output_cid]_vars
    /\ [][op' # "begin" =>
            (curcid' = curcid /\ es_output_cid' = es_output_cid)]_vars
    /\ [](phase # "uninit" => es_output_cid = curcid)

\* After two rows and the pull without a row.
C19_Witness ==
    /\ op = "exec"
    /\ n_rows = 2
    /\ n_null = 1
    /\ last_pull.curcid = curcid - 1
    /\ last_pull.es_output_cid = es_output_cid - 1
    /\ es_output_cid = curcid


\* C20 as first stated: when MissingDirection is raised for an edge, nothing
\* that follows the edge in its path has been resolved or stored.
C20_DirectionCheckedFirst ==
    err = "MissingDirection" =>
        /\ \A k \in DOMAIN trace : ~After(trace[k].pos, RaisedAt)
        /\ \A k \in RowTuples : ~After(heap[k].pos, RaisedAt)

\* C20 as amended: the direction of an edge is looked at when the vertex
\* after it has come back.  When MissingDirection is raised for an edge, the
\* whole rest of its path has been walked: every vertex after the edge has
\* been resolved, every target node to insert after it has been stored, and
\* the edge itself has not.
RestOfPath(e) == {q \in Positions : q[1] = e[1] /\ q[2] > e[2]}

C20_DirectionCheckedLast ==
    err = "MissingDirection" =>
        /\ trace[Len(trace)].ev = "raise"
        /\ RaisedAt \in EdgePositions
        /\ Node(RaisedAt).dir \notin {"right", "left"}
        /\ ~Stored(RaisedAt)
        /\ Did("resolved", Succ(RaisedAt))
        /\ \A q \in RestOfPath(RaisedAt) :
              /\ q \in VertexPositions => Did("resolved", q)
              /\ q \in InsertPositions => Stored(q)

\* (a)-[e]-(b), b to insert: b is in the heap when e's direction is missed.
C20_Witness ==
    /\ err = "MissingDirection"
    /\ RaisedAt = <<1, 2>>
    /\ PathLen(1) = 3
    /\ <<1, 3>> \in InsertPositions
    /\ Stored(<<1, 3>>)
    /\ ~Stored(<<1, 2>>)


\* C21: the branch of a vertex bound earlier creates nothing: no graphid is
\* asked, no tuple is stored or recorded for it and its slot is left as it
\* was.  All it does is the two lookups, the append of the slot's datum to
\* the path list and the call of the next edge.
NamedStored ==
    {pos \in InsertPositions : Stored(pos) /\ Node(pos).variable_name # NULL}

PulledDatum == IF scantuple[X].type = "vertex" THEN make_vertex(n_rows)
               ELSE make_edge(n_rows, 0, 0)

C21_ReferenceCreatesNothing ==
    [](\A pos \in ReferencePositions :
        Did("vertex", pos) =>
            /\ \A k \in DOMAIN trace :
                  trace[k].pos = pos =>
                      trace[k].ev \in {"vertex", "get_heap_tuple", "entity_exists",
                                       "append", "resolved", "raise"}
            /\ \A k \in DOMAIN heap : heap[k].pos # pos
            /\ IdsAsked = Len(heap) + (IF err = "ConstraintViolation" THEN 1 ELSE 0)
            /\ Len(tuple_info) = Cardinality(NamedStored)
            /\ scantuple[X] = PulledDatum
            /\ Did("resolved", pos) => ResolvedId(pos) = BoundDatum(pos).id)

\* (x)-[e]->(b): x bound by the subtree, checked and added to the path list;
\* e and b stored and recorded.
C21_Witness ==
    /\ err = "none"
    /\ n_rows = 2
    /\ <<1, 1>> \in CheckedPositions
    /\ Did("entity_exists", <<1, 1>>)
    /\ Did("append", <<1, 1>>)
    /\ Stored(<<1, 2>>)
    /\ Len(tuple_info) = 2

\* C22: the tuples of one path are stored vertices first, in the order of the
\* path, then edges, from the last to the first; no edge is stored before
\* the last vertex of its path has been resolved; and all of a path is
\* stored before the next path is begun.
LastVertex(p) == <<p, PathLen(p)>>

IsVertexPos(pos) == pos[2] % 2 = 1

\* The tuple of target node a may be stored before that of target node b.
StoredBefore(a, b) ==
    \/ a[1] < b[1]
    \/ /\ a[1] = b[1]
       /\ \/ IsVertexPos(a) /\ IsVertexPos(b) /\ a[2] < b[2]
          \/ IsVertexPos(a) /\ ~IsVertexPos(b)
          \/ ~IsVertexPos(a) /\ ~IsVertexPos(b) /\ b[2] < a[2]

C22_InsertOrder ==
    [](/\ \A i \in DOMAIN heap : \A j \in DOMAIN heap :
             (i < j /\ heap[i].row = heap[j].row) =>
                 StoredBefore(heap[i].pos, heap[j].pos)
       /\ \A k \in DOMAIN trace :
             (trace[k].ev = "insert" /\ ~IsVertexPos(trace[k].pos)) =>
                 \E j \in 1..(k - 1) :
                     /\ trace[j].ev = "resolved"
                     /\ trace[j].pos = LastVertex(trace[k].pos[1])
       /\ \A k \in DOMAIN trace :
             trace[k].ev = "path" =>
                 /\ \A j \in 1..(k - 1) : trace[j].pos[1] < trace[k].pos[1]
                 /\ \A j \in (k + 1)..Len(trace) :
                       trace[j].pos[1] >= trace[k].pos[1])

\* A path of three vertices and two edges, all to insert.
C22_Witness ==
    /\ err = "none"
    /\ PathLen(1) = 5
    /\ \A i \in 1..5 : Stored(<<1, i>>)
    /\ TupleOf(<<1, 1>>) < TupleOf(<<1, 3>>)
    /\ TupleOf(<<1, 3>>) < TupleOf(<<1, 5>>)
    /\ TupleOf(<<1, 5>>) < TupleOf(<<1, 4>>)
    /\ TupleOf(<<1, 4>>) < TupleOf(<<1, 2>>)

\* C23: the path list is empty when the walk of a path begins, for every
\* path and every row, and between rows; the path datum of a path is made of
\* the datums of its own target nodes in this row and of nothing else.
OwnIds(p) ==
    {heap[k].id : k \in {j \in RowTuples : heap[j].pos[1] = p}}
    \cup {ResolvedId(<<p, i>>) : i \in {j \in 1..PathLen(p) : j % 2 = 1}}

C23_PathListEmptyAtStart ==
    [](/\ \A k \in DOMAIN trace : trace[k].ev = "path" => trace[k].id = 0
       /\ err \in {"none", "UnsupportedReiteration"} => path_values = <<>>
       /\ (err = "none" /\ n_exec > 0) =>
             \A p \in 1..NumPaths :
                 path_attr_num(p) # InvalidAttrNumber =>
                     /\ Len(scantuple[path_attr_num(p)].elems) <= PathLen(p)
                     /\ \A i \in DOMAIN scantuple[path_attr_num(p)].elems :
                           scantuple[path_attr_num(p)].elems[i].id \in OwnIds(p))

\* The second row of a pattern of two paths, each with a path variable.
C23_Witness ==
    /\ err = "none"
    /\ n_rows = 2
    /\ NumPaths = 2
    /\ path_attr_num(1) # InvalidAttrNumber
    /\ path_attr_num(2) # InvalidAttrNumber
    /\ Len(scantuple[path_attr_num(1)].elems) = 3
    /\ Len(scantuple[path_attr_num(2)].elems) = 1
    /\ path_values = <<>>

====
